---- MODULE Spec2Model ----
(***************************************************************************)
(* SSDP discovery engine of node-upnp (src/discovery.js): the datagram     *)
(* parser, the message classifier, the message store and the discovery     *)
(* service that owns the UDP socket.                                       *)
(*                                                                         *)
(* A JavaScript string is a sequence of one-character strings, so that     *)
(* split, indexOf, substr, trim, toUpperCase and parseInt are computed on  *)
(* the characters.  The JavaScript value undefined is Undefined.  A        *)
(* JavaScript number is a record [nan, n]; times are in milliseconds.      *)
(***************************************************************************)
EXTENDS Integers, Sequences, FiniteSets, TLC

\* ------------------------------------------------------------------------
\* Bounds of the model
\* ------------------------------------------------------------------------
MaxNow == 3
MaxPending == 1
MaxArrived == 3
MaxParseLen == 4
MaxChildren == 3

\* ------------------------------------------------------------------------
\* Program constants
\* ------------------------------------------------------------------------
MsPerSecond == 1000

\* ------------------------------------------------------------------------
\* JavaScript strings and numbers
\* ------------------------------------------------------------------------
Undefined == <<"undefined">>

WhiteSpace == {" ", "\t", "\r", "\n"}

Lower == <<"a", "b", "c", "d", "e", "f", "g", "h", "i", "j", "k", "l", "m", "n", "o", "p", "q", "r", "s", "t", "u", "v", "w", "x", "y", "z">>

UpperOf == <<"A", "B", "C", "D", "E", "F", "G", "H", "I", "J", "K", "L", "M", "N", "O", "P", "Q", "R", "S", "T", "U", "V", "W", "X", "Y", "Z">>

DigitChars == <<"0", "1", "2", "3", "4", "5", "6", "7", "8", "9">>

NaN == [nan |-> TRUE, n |-> 0]

Num(k) == [nan |-> FALSE, n |-> k]

\* a + b on JavaScript numbers
JsAdd(a, b) == IF a.nan \/ b.nan THEN NaN ELSE Num(a.n + b.n)

\* a * b on JavaScript numbers
JsMul(a, b) == IF a.nan \/ b.nan THEN NaN ELSE Num(a.n * b.n)

\* a < b on JavaScript numbers: false when either side is NaN
JsLess(a, b) == ~a.nan /\ ~b.nan /\ a.n < b.n

PosIn(c, chars) == CHOOSE i \in 1..Len(chars) : chars[i] = c

IsIn(c, chars) == \E i \in 1..Len(chars) : chars[i] = c

\* the upper-case letter of each lower-case letter
UpperCaseOf == [c \in {Lower[i] : i \in 1..Len(Lower)} |-> UpperOf[PosIn(c, Lower)]]

\* String.prototype.toUpperCase
toUpperCase(s) ==
  [i \in 1..Len(s) |-> IF s[i] \in DOMAIN UpperCaseOf THEN UpperCaseOf[s[i]] ELSE s[i]]

\* String.prototype.indexOf(pat): 0-based index of the first occurrence, -1 if none
indexOf(s, pat) ==
  LET hits == {i \in 0..(Len(s) - Len(pat)) : SubSeq(s, i + 1, i + Len(pat)) = pat}
  IN  IF hits = {} THEN -1 ELSE CHOOSE i \in hits : \A j \in hits : i <= j

\* String.prototype.substring(from) / substr(from)
substring(s, from) == SubSeq(s, from + 1, Len(s))

\* String.prototype.substr(0, len)
substr0(s, len) == SubSeq(s, 1, len)

\* String.prototype.trim
trim(s) ==
  LET keep == {i \in 1..Len(s) : s[i] \notin WhiteSpace}
  IN  IF keep = {} THEN <<>>
      ELSE LET lo == CHOOSE i \in keep : \A j \in keep : i <= j
               hi == CHOOSE i \in keep : \A j \in keep : j <= i
           IN  SubSeq(s, lo, hi)

RECURSIVE split(_, _)
\* String.prototype.split(sep) for a non-empty separator string
split(s, sep) ==
  LET idx == indexOf(s, sep)
  IN  IF idx = -1 THEN <<s>>
      ELSE <<substr0(s, idx)>> \o split(substring(s, idx + Len(sep)), sep)

RECURSIVE splitWs(_)
\* String.prototype.split(/\s+/): a run of white space separates two tokens
splitWs(s) ==
  LET ws == {i \in 1..Len(s) : s[i] \in WhiteSpace}
  IN  IF ws = {} THEN <<s>>
      ELSE LET first == CHOOSE i \in ws : \A j \in ws : i <= j
               after == {i \in first..Len(s) : s[i] \notin WhiteSpace}
               next  == IF after = {} THEN Len(s) + 1
                        ELSE CHOOSE i \in after : \A j \in after : i <= j
           IN  <<SubSeq(s, 1, first - 1)>> \o splitWs(SubSeq(s, next, Len(s)))

RECURSIVE DigitsValue(_)
\* value of a sequence of decimal digits
DigitsValue(ds) ==
  IF ds = <<>> THEN 0
  ELSE 10 * DigitsValue(SubSeq(ds, 1, Len(ds) - 1)) + (PosIn(ds[Len(ds)], DigitChars) - 1)

\* parseInt(s, 10): leading white space, an optional sign, then the longest
\* run of decimal digits; NaN when there is no digit
parseInt(s) ==
  LET nonWs  == {i \in 1..Len(s) : s[i] \notin WhiteSpace}
      start  == IF nonWs = {} THEN Len(s) + 1
                ELSE CHOOSE i \in nonWs : \A j \in nonWs : i <= j
      signed == start <= Len(s) /\ s[start] \in {"-", "+"}
      from   == IF signed THEN start + 1 ELSE start
      stop   == {i \in from..Len(s) : ~IsIn(s[i], DigitChars)}
      to     == IF stop = {} THEN Len(s)
                ELSE (CHOOSE i \in stop : \A j \in stop : i <= j) - 1
      value  == DigitsValue(SubSeq(s, from, to))
  IN  IF to < from THEN NaN
      ELSE IF signed /\ s[start] = "-" THEN Num(0 - value) ELSE Num(value)

DatePrefix == <<"T", "h", "u", ",", " ", "0", "1", " ", "J", "a", "n", " ", "1", "9", "7", "0", " ", "0", "0", ":", "0", "0", ":", "0">>

DateSuffix == <<" ", "G", "M", "T">>

\* new Date(value).getTime() on the date strings of the model: an RFC 1123
\* date in the first ten seconds of the epoch gives its milliseconds, any
\* other text (and undefined) gives an Invalid Date, whose time is NaN
DateParse(value) ==
  IF /\ Len(value) = Len(DatePrefix) + 1 + Len(DateSuffix)
     /\ substr0(value, Len(DatePrefix)) = DatePrefix
     /\ substring(value, Len(DatePrefix) + 1) = DateSuffix
     /\ IsIn(value[Len(DatePrefix) + 1], DigitChars)
  THEN Num((PosIn(value[Len(DatePrefix) + 1], DigitChars) - 1) * MsPerSecond)
  ELSE NaN

\* ------------------------------------------------------------------------
\* DiscoveryMessageHeader and DiscoveryMessage
\* ------------------------------------------------------------------------
DiscoveryMessageHeader(header, value) == [header |-> header, value |-> value]

\* the result of Array.prototype.find when no header matches (undefined)
NoHeader == [header |-> Undefined, value |-> Undefined]

DiscoveryMessage(remoteAddress, timestamp, statusLine, headers) ==
  [remoteAddress |-> remoteAddress, timestamp |-> timestamp,
   statusLine |-> statusLine, headers |-> headers]

\* DiscoveryMessage._getHeadersNamed
getHeadersNamed(message, name) ==
  LET Match(h) == toUpperCase(h.header) = toUpperCase(name)
  IN  SelectSeq(message.headers, Match)

\* DiscoveryMessage._getFirstHeaderNamed
getFirstHeaderNamed(message, name) ==
  LET named == getHeadersNamed(message, name)
  IN  IF named = <<>> THEN NoHeader ELSE named[1]

\* an isNotify that ignores the letter case of the method
isNotify_anyCase(message) == toUpperCase(message.statusLine[1]) = <<"N", "O", "T", "I", "F", "Y">>

isNotify(message) == message.statusLine[1] = <<"N", "O", "T", "I", "F", "Y">>

isSearchResponse(message) == message.statusLine[1] = <<"H", "T", "T", "P", "/", "1", ".", "1">>

\* discoveryMessage.isSearchRespone: DiscoveryMessage defines no property of
\* this name, so the read gives undefined, which is falsy
isSearchRespone(message) == FALSE

LOCATION(message) == getHeadersNamed(message, <<"L", "O", "C", "A", "T", "I", "O", "N">>)

LOCATION0(message) == getFirstHeaderNamed(message, <<"L", "O", "C", "A", "T", "I", "O", "N">>)

NTS0(message) == getFirstHeaderNamed(message, <<"N", "T", "S">>)

NT(message) == getHeadersNamed(message, <<"N", "T">>)

ST(message) == getHeadersNamed(message, <<"S", "T">>)

\* a USN0 that matches the header name in upper case only
USN0_exactCase(message) ==
  LET Match(h) == h.header = <<"U", "S", "N">>
      named    == SelectSeq(message.headers, Match)
  IN  IF named = <<>> THEN NoHeader ELSE named[1]

USN0(message) == getFirstHeaderNamed(message, <<"U", "S", "N">>)

MaxAgeDirective == <<"m", "a", "x", "-", "a", "g", "e", "=">>

\* isExpired raises a TypeError at cacheControl.value.indexOf when the first
\* CACHE-CONTROL header has no value
isExpiredThrows(message) ==
  LET cacheControl == getFirstHeaderNamed(message, <<"C", "A", "C", "H", "E", "-", "C", "O", "N", "T", "R", "O", "L">>)
  IN  cacheControl # NoHeader /\ cacheControl.value = Undefined

\* isExpired with a default max-age of 0 when the directive is missing
isExpired_defaultAge(message, dateNow) ==
  LET cacheControl == getFirstHeaderNamed(message, <<"C", "A", "C", "H", "E", "-", "C", "O", "N", "T", "R", "O", "L">>)
      idx          == indexOf(cacheControl.value, MaxAgeDirective)
      maxAge       == IF cacheControl = NoHeader \/ idx = -1 THEN Num(0)
                      ELSE parseInt(substring(cacheControl.value, idx + Len(MaxAgeDirective)))
      date         == getFirstHeaderNamed(message, <<"D", "A", "T", "E">>)
      messageDate  == IF date = NoHeader THEN Num(message.timestamp)
                      ELSE DateParse(date.value)
  IN  JsLess(JsAdd(messageDate, JsMul(maxAge, Num(MsPerSecond))), Num(dateNow))

\* DiscoveryMessage.isExpired, with dateNow the value of Date.now()
isExpired(message, dateNow) ==
  LET cacheControl == getFirstHeaderNamed(message, <<"C", "A", "C", "H", "E", "-", "C", "O", "N", "T", "R", "O", "L">>)
      idx          == indexOf(cacheControl.value, MaxAgeDirective)
      maxAge       == parseInt(substring(cacheControl.value, idx + Len(MaxAgeDirective)))
      date         == getFirstHeaderNamed(message, <<"D", "A", "T", "E">>)
      messageDate  == IF date = NoHeader THEN Num(message.timestamp)
                      ELSE DateParse(date.value)
  IN  IF cacheControl = NoHeader THEN FALSE
      ELSE IF idx = -1 THEN FALSE
      ELSE JsLess(JsAdd(messageDate, JsMul(maxAge, Num(MsPerSecond))), Num(dateNow))

\* a _parseHeaderLine that cuts the line at its last colon
parseHeaderLine_lastColon(line) ==
  LET colons == {i \in 1..Len(line) : line[i] = ":"}
      idx    == IF colons = {} THEN -1
                ELSE (CHOOSE i \in colons : \A j \in colons : j <= i) - 1
  IN  IF idx >= 0
      THEN DiscoveryMessageHeader(substr0(line, idx), trim(substring(line, idx + 1)))
      ELSE DiscoveryMessageHeader(line, Undefined)

\* DiscoveryMessage._parseHeaderLine
parseHeaderLine(line) ==
  LET idx == indexOf(line, <<":">>)
  IN  IF idx >= 0
      THEN DiscoveryMessageHeader(substr0(line, idx), trim(substring(line, idx + 1)))
      ELSE DiscoveryMessageHeader(line, Undefined)

\* DiscoveryMessage._parseStatusLine
parseStatusLine(line) == splitWs(line)

\* a parseString that takes the status line from the second line
parseStringThrows_second(msg) == Len(split(msg, <<"\r", "\n">>)) < 2

\* parseString raises a TypeError in _parseStatusLine when lines[0] is
\* undefined, that is when split returns no line
parseStringThrows(msg) == Len(split(msg, <<"\r", "\n">>)) < 1

\* DiscoveryMessage.parseString
parseString(remoteAddress, timestamp, msg) ==
  LET lines      == split(msg, <<"\r", "\n">>)
      statusLine == parseStatusLine(lines[1])
      NonBlank(line) == Len(line) > 0
      rest       == SelectSeq(Tail(lines), NonBlank)
      headers    == [i \in 1..Len(rest) |-> parseHeaderLine(rest[i])]
  IN  DiscoveryMessage(remoteAddress, timestamp, statusLine, headers)

\* ------------------------------------------------------------------------
\* DiscoveryMessageStore
\* ------------------------------------------------------------------------
\* the messages getter raises when isExpired raises for an entry
messagesThrows(store) == \E i \in 1..Len(store) : isExpiredThrows(store[i])

\* the messages getter without the filter
messages_unfiltered(store, dateNow) == store

\* the messages getter: the entries that are not expired, in order
messages(store, dateNow) ==
  LET Live(message) == ~isExpired(message, dateNow)
  IN  SelectSeq(store, Live)

\* clear that drops only the entries after the first
clear_keepsFirst(store) == IF store = <<>> THEN <<>> ELSE <<store[1]>>

\* clear that keeps the newest entry
clear_keepsLast(store) == IF store = <<>> THEN <<>> ELSE <<store[Len(store)]>>

\* clear that leaves the entries in place
clear_keeps(store) == store

\* DiscoveryMessageStore.clear
clear(store) == <<>>

\* a === b between a header object (or undefined) and a string primitive:
\* the operands have different types, so they are never strictly equal
HeaderStrictEqualsString(header, string) == FALSE

\* an admissibility test that forgets the LOCATION header
admissible_noLocation(discoveryMessage) ==
  /\ USN0(discoveryMessage) # NoHeader
  /\ (isSearchResponse(discoveryMessage) \/ NTS0(discoveryMessage) # NoHeader)

\* the admissibility test of update
admissible(discoveryMessage) ==
  /\ USN0(discoveryMessage) # NoHeader
  /\ LOCATION0(discoveryMessage) # NoHeader
  /\ (isSearchResponse(discoveryMessage) \/ NTS0(discoveryMessage) # NoHeader)

\* findIndex comparing the USN0 header objects, which are never identical
existingIndexOf_objects(store, discoveryMessage) == -1

\* Array.prototype.findIndex in update: 0-based index of the first entry
\* with the USN0 value of the message, -1 if none
existingIndexOf(store, discoveryMessage) ==
  LET hits == {i \in 1..Len(store) : USN0(store[i]).value = USN0(discoveryMessage).value}
  IN  IF hits = {} THEN -1 ELSE (CHOOSE i \in hits : \A j \in hits : i <= j) - 1

\* update that drops a message whose USN is not in the store
update_noInsert(store, discoveryMessage) ==
  LET existingIndex == existingIndexOf(store, discoveryMessage)
  IN  IF ~admissible(discoveryMessage) \/ existingIndex = -1 THEN store
      ELSE [store EXCEPT ![existingIndex + 1] = discoveryMessage]

\* update that decides on the NTS value alone, search responses included
update_byNtsOnly(store, discoveryMessage) ==
  LET nts0          == NTS0(discoveryMessage)
      existingIndex == existingIndexOf(store, discoveryMessage)
  IN  IF ~admissible(discoveryMessage) THEN store
      ELSE IF existingIndex = -1
      THEN IF nts0.value # <<"s", "s", "d", "p", ":", "b", "y", "e", "b", "y", "e">> THEN Append(store, discoveryMessage) ELSE store
      ELSE IF nts0.value # <<"s", "s", "d", "p", ":", "b", "y", "e", "b", "y", "e">>
           THEN [store EXCEPT ![existingIndex + 1] = discoveryMessage]
           ELSE SubSeq(store, 1, existingIndex) \o SubSeq(store, existingIndex + 2, Len(store))

\* update that moves a refreshed entry to the end of the array
update_movesToEnd(store, discoveryMessage) ==
  LET existingIndex == existingIndexOf(store, discoveryMessage)
  IN  IF ~admissible(discoveryMessage) THEN store
      ELSE IF existingIndex = -1 THEN Append(store, discoveryMessage)
      ELSE Append(SubSeq(store, 1, existingIndex) \o SubSeq(store, existingIndex + 2, Len(store)),
                  discoveryMessage)

\* update that keeps the entry it finds: the first write wins
update_firstWins(store, discoveryMessage) ==
  IF ~admissible(discoveryMessage) \/ existingIndexOf(store, discoveryMessage) # -1
  THEN store ELSE Append(store, discoveryMessage)

\* update that pushes the message where it has to replace the entry
update_pushes(store, discoveryMessage) ==
  IF ~admissible(discoveryMessage) THEN store ELSE Append(store, discoveryMessage)

\* DiscoveryMessageStore.update
update(store, discoveryMessage) ==
  LET nts0          == NTS0(discoveryMessage)
      existingIndex == existingIndexOf(store, discoveryMessage)
  IN  IF ~admissible(discoveryMessage) THEN store
      ELSE IF existingIndex = -1
      THEN IF isSearchRespone(discoveryMessage) \/ ~HeaderStrictEqualsString(nts0, <<"s", "s", "d", "p", ":", "b", "y", "e", "b", "y", "e">>)
           THEN Append(store, discoveryMessage)
           ELSE store
      ELSE IF isSearchResponse(discoveryMessage) \/ ~HeaderStrictEqualsString(nts0, <<"s", "s", "d", "p", ":", "b", "y", "e", "b", "y", "e">>)
           THEN [store EXCEPT ![existingIndex + 1] = discoveryMessage]
           ELSE SubSeq(store, 1, existingIndex) \o SubSeq(store, existingIndex + 2, Len(store))

\* findByST over the raw entries, expired ones included
findByST_raw(store, st, dateNow) ==
  LET Has(message) == \E i \in 1..Len(ST(message)) : ST(message)[i].value = st
  IN  SelectSeq(store, Has)

\* a findByST that falls back on the NT headers of a message without ST
findByST_orNT(store, st, dateNow) ==
  LET Named(message) == IF ST(message) = <<>> THEN NT(message) ELSE ST(message)
      Has(message) == \E i \in 1..Len(Named(message)) : Named(message)[i].value = st
  IN  SelectSeq(messages(store, dateNow), Has)

\* DiscoveryMessageStore.findByST on the entries the messages getter returns
findByST(store, st, dateNow) ==
  LET Has(message) == \E i \in 1..Len(ST(message)) : ST(message)[i].value = st
  IN  SelectSeq(messages(store, dateNow), Has)

\* getLocations over the raw entries, expired ones included
getLocations_raw(store, dateNow) ==
  UNION {{LOCATION(store[i])[j].value : j \in 1..Len(LOCATION(store[i]))} : i \in 1..Len(store)}

\* DiscoveryService.getLocations: the Set of the values of all LOCATION
\* headers of the entries the messages getter returns
getLocations(store, dateNow) ==
  LET live == messages(store, dateNow)
  IN  UNION {{LOCATION(live[i])[j].value : j \in 1..Len(LOCATION(live[i]))} : i \in 1..Len(live)}

\* ------------------------------------------------------------------------
\* Datagrams the socket can deliver, and arguments of the callers
\* ------------------------------------------------------------------------
RemoteAddress == "192.168.1.10:1900"

AliveU1 == <<"N", "O", "T", "I", "F", "Y", " ", "*", " ", "H", "T", "T", "P", "/", "1", ".", "1", "\r", "\n", "N", "T", ":", " ", "c", "d", "\r", "\n", "N", "T", "S", ":", " ", "s", "s", "d", "p", ":", "a", "l", "i", "v", "e", "\r", "\n", "U", "S", "N", ":", " ", "u", "1", "\r", "\n", "L", "O", "C", "A", "T", "I", "O", "N", ":", " ", "h", ":", "/", "a", "\r", "\n", "C", "A", "C", "H", "E", "-", "C", "O", "N", "T", "R", "O", "L", ":", " ", "m", "a", "x", "-", "a", "g", "e", "=", "1", "\r", "\n", "\r", "\n">>

ByebyeU1 == <<"N", "O", "T", "I", "F", "Y", " ", "*", " ", "H", "T", "T", "P", "/", "1", ".", "1", "\r", "\n", "N", "T", ":", " ", "c", "d", "\r", "\n", "N", "T", "S", ":", " ", "s", "s", "d", "p", ":", "b", "y", "e", "b", "y", "e", "\r", "\n", "U", "S", "N", ":", " ", "u", "1", "\r", "\n", "L", "O", "C", "A", "T", "I", "O", "N", ":", " ", "h", ":", "/", "a", "\r", "\n", "\r", "\n">>

NoCacheU1 == <<"N", "O", "T", "I", "F", "Y", " ", "*", " ", "H", "T", "T", "P", "/", "1", ".", "1", "\r", "\n", "N", "T", "S", ":", " ", "s", "s", "d", "p", ":", "a", "l", "i", "v", "e", "\r", "\n", "U", "S", "N", ":", " ", "u", "1", "\r", "\n", "L", "O", "C", "A", "T", "I", "O", "N", ":", " ", "h", ":", "/", "b", "\r", "\n", "C", "A", "C", "H", "E", "-", "C", "O", "N", "T", "R", "O", "L", ":", " ", "n", "o", "-", "c", "a", "c", "h", "e", "\r", "\n", "\r", "\n">>

ResponseU2 == <<"H", "T", "T", "P", "/", "1", ".", "1", " ", "2", "0", "0", " ", "O", "K", "\r", "\n", "C", "A", "C", "H", "E", "-", "C", "O", "N", "T", "R", "O", "L", ":", " ", "m", "a", "x", "-", "a", "g", "e", "=", "1", "\r", "\n", "D", "A", "T", "E", ":", " ", "T", "h", "u", ",", " ", "0", "1", " ", "J", "a", "n", " ", "1", "9", "7", "0", " ", "0", "0", ":", "0", "0", ":", "0", "0", " ", "G", "M", "T", "\r", "\n", "S", "T", ":", " ", "c", "d", "\r", "\n", "u", "s", "n", ":", " ", "u", "2", "\r", "\n", "L", "O", "C", "A", "T", "I", "O", "N", ":", " ", "h", ":", "/", "a", "\r", "\n", "\r", "\n">>

BadDateU2 == <<"N", "O", "T", "I", "F", "Y", " ", "*", " ", "H", "T", "T", "P", "/", "1", ".", "1", "\r", "\n", "N", "T", "S", ":", " ", "s", "s", "d", "p", ":", "a", "l", "i", "v", "e", "\r", "\n", "U", "S", "N", ":", " ", "u", "2", "\r", "\n", "L", "O", "C", "A", "T", "I", "O", "N", ":", " ", "h", ":", "/", "b", "\r", "\n", "C", "A", "C", "H", "E", "-", "C", "O", "N", "T", "R", "O", "L", ":", " ", "m", "a", "x", "-", "a", "g", "e", "=", "0", "\r", "\n", "D", "A", "T", "E", ":", " ", "s", "o", "o", "n", "\r", "\n", "\r", "\n">>

PlainU2 == <<"N", "O", "T", "I", "F", "Y", " ", "*", " ", "H", "T", "T", "P", "/", "1", ".", "1", "\r", "\n", "N", "T", ":", " ", "c", "d", "\r", "\n", "N", "T", "S", ":", " ", "s", "s", "d", "p", ":", "a", "l", "i", "v", "e", "\r", "\n", "U", "S", "N", ":", " ", "u", "2", "\r", "\n", "L", "O", "C", "A", "T", "I", "O", "N", ":", " ", "h", ":", "/", "b", "\r", "\n", "\r", "\n">>

NoValueU2 == <<"N", "O", "T", "I", "F", "Y", " ", "*", " ", "H", "T", "T", "P", "/", "1", ".", "1", "\r", "\n", "N", "T", "S", ":", " ", "s", "s", "d", "p", ":", "a", "l", "i", "v", "e", "\r", "\n", "U", "S", "N", ":", " ", "u", "2", "\r", "\n", "L", "O", "C", "A", "T", "I", "O", "N", ":", " ", "h", ":", "/", "b", "\r", "\n", "C", "A", "C", "H", "E", "-", "C", "O", "N", "T", "R", "O", "L", "\r", "\n", "\r", "\n">>

NoLocationU1 == <<"N", "O", "T", "I", "F", "Y", " ", "*", " ", "H", "T", "T", "P", "/", "1", ".", "1", "\r", "\n", "N", "T", "S", ":", " ", "s", "s", "d", "p", ":", "a", "l", "i", "v", "e", "\r", "\n", "U", "S", "N", ":", " ", "u", "1", "\r", "\n", "\r", "\n">>

SearchRequest == <<"M", "-", "S", "E", "A", "R", "C", "H", " ", "*", " ", "H", "T", "T", "P", "/", "1", ".", "1", "\r", "\n", "S", "T", ":", " ", "c", "d", "\r", "\n", "U", "S", "N", ":", " ", "u", "1", "\r", "\n", "L", "O", "C", "A", "T", "I", "O", "N", ":", " ", "h", ":", "/", "a", "\r", "\n", "\r", "\n">>

NoNtsU1 == <<"N", "O", "T", "I", "F", "Y", " ", "*", " ", "H", "T", "T", "P", "/", "1", ".", "1", "\r", "\n", "U", "S", "N", ":", " ", "u", "1", "\r", "\n", "L", "O", "C", "A", "T", "I", "O", "N", ":", " ", "h", ":", "/", "a", "\r", "\n", "\r", "\n">>

NoUsn == <<"N", "O", "T", "I", "F", "Y", " ", "*", " ", "H", "T", "T", "P", "/", "1", ".", "1", "\r", "\n", "N", "T", "S", ":", " ", "s", "s", "d", "p", ":", "a", "l", "i", "v", "e", "\r", "\n", "L", "O", "C", "A", "T", "I", "O", "N", ":", " ", "h", ":", "/", "a", "\r", "\n", "\r", "\n">>

OtherU1 == <<"n", "o", "t", "i", "f", "y", " ", "*", " ", "H", "T", "T", "P", "/", "1", ".", "1", "\r", "\n", "N", "T", "S", ":", " ", "s", "s", "d", "p", ":", "a", "l", "i", "v", "e", "\r", "\n", "U", "S", "N", ":", " ", "u", "1", "\r", "\n", "L", "O", "C", "A", "T", "I", "O", "N", ":", " ", "h", ":", "/", "b", "\r", "\n", "\r", "\n">>

ByebyeResponseU2 == <<"H", "T", "T", "P", "/", "1", ".", "1", " ", "2", "0", "0", " ", "O", "K", "\r", "\n", "S", "T", ":", " ", "c", "d", "\r", "\n", "N", "T", "S", ":", " ", "s", "s", "d", "p", ":", "b", "y", "e", "b", "y", "e", "\r", "\n", "U", "S", "N", ":", " ", "u", "2", "\r", "\n", "L", "O", "C", "A", "T", "I", "O", "N", ":", " ", "h", ":", "/", "a", "\r", "\n", "\r", "\n">>

TwoUsnU1 == <<"N", "O", "T", "I", "F", "Y", " ", "*", " ", "H", "T", "T", "P", "/", "1", ".", "1", "\r", "\n", "N", "T", "S", ":", " ", "s", "s", "d", "p", ":", "a", "l", "i", "v", "e", "\r", "\n", "U", "s", "n", ":", " ", "u", "1", "\r", "\n", "U", "S", "N", ":", " ", "u", "2", "\r", "\n", "L", "O", "C", "A", "T", "I", "O", "N", ":", " ", "h", ":", "/", "b", "\r", "\n", "\r", "\n">>

EmptyPayload == <<>>

Datagrams == {AliveU1, ByebyeU1, NoCacheU1, ResponseU2, BadDateU2, PlainU2, NoValueU2,
              NoLocationU1, SearchRequest, NoNtsU1, NoUsn, OtherU1, EmptyPayload}

\* datagrams that address entries in unusual ways: a search response that
\* carries NTS: ssdp:byebye, a NOTIFY with two USN headers
UpsertDatagrams == {AliveU1, PlainU2, ResponseU2, ByebyeResponseU2, TwoUsnU1}

SearchTargets == {<<"c", "d">>, <<"s", "s", "d", "p", ":", "a", "l", "l">>}

\* Date.now(), and the getTime() of the new Date() of the message handler
DateNow(t) == t * MsPerSecond

\* ------------------------------------------------------------------------
\* DiscoveryService
\* ------------------------------------------------------------------------
VARIABLES
  socket,   \* this._socket: "null", or the state of the dgram socket
  store,    \* this._messageStore._messages
  now,      \* the clock, in seconds
  pending,  \* sends the socket accepted whose callback has not run yet
  lastOp,   \* the last operation: its argument, outcome and result
  arrived,  \* what was observed, in order: the datagrams the socket delivered
            \* (kept by OrderSpec, RefreshSpec and, since the last search, by
            \* SearchSpec), the arrays the reads returned (ExpirySpec)
  findAll   \* the call of findAllDeviceDescriptions: the fetches that are
            \* outstanding, its errors and descriptions, the callbacks made

vars == <<socket, store, now, pending, lastOp, arrived, findAll>>

\* no call of findAllDeviceDescriptions has been made
NoFindAll ==
  [started |-> FALSE, outstanding |-> {}, errors |-> <<>>, descriptions |-> <<>>, callbacks |-> 0]


NoError == "none"

\* no entry: the value of existing when update found none or did not look
NoMessage == DiscoveryMessage(RemoteAddress, 0, <<>>, <<>>)

\* the record of an operation: its name and argument, the error it threw,
\* the result it returned (msgs or locs) and the store's length before it
Op(op, arg, error, msgs, locs) ==
  [op |-> op, arg |-> arg, error |-> error, callback |-> <<>>, sizeBefore |-> Len(store),
   existingIndex |-> -1, existing |-> NoMessage, msgs |-> msgs, locs |-> locs]

\* the record of an event handler that invokes a callback of the caller:
\* callback holds the callback's name and its err argument
OpCallback(op, arg, name, err) ==
  [op |-> op, arg |-> arg, error |-> NoError, callback |-> <<name, err>>,
   sizeBefore |-> Len(store), existingIndex |-> -1, existing |-> NoMessage,
   msgs |-> <<>>, locs |-> {}]

\* the record of an update: existingIndex and the entry found there
OpUpdate(msg, existingIndex) ==
  [op |-> "message", arg |-> msg, error |-> NoError, callback |-> <<>>,
   sizeBefore |-> Len(store),
   existingIndex |-> existingIndex,
   existing |-> IF existingIndex = -1 THEN NoMessage ELSE store[existingIndex + 1],
   msgs |-> <<>>, locs |-> {}]

Init ==
  /\ socket = "null"
  /\ store = <<>>
  /\ now = 0
  /\ pending = 0
  /\ arrived = <<>>
  /\ findAll = NoFindAll
  /\ lastOp = [op |-> "new", arg |-> <<>>, error |-> NoError, callback |-> <<>>, sizeBefore |-> 0,
               existingIndex |-> -1, existing |-> NoMessage, msgs |-> <<>>, locs |-> {}]

\* startService without its guard
startServiceGuard_none(sock) == NoError

\* a guard of startService that only rejects a socket that is open
startServiceGuard_open(sock) ==
  IF sock \in {"binding", "listening"} THEN "Server already started" ELSE NoError

\* the guard of startService: the error it throws, if any
startServiceGuard(sock) == IF sock # "null" THEN "Server already started" ELSE NoError

\* DiscoveryService.startService: createSocket, the three handlers, bind
startService ==
  /\ IF startServiceGuard(socket) # NoError
     THEN /\ lastOp' = Op("startService", <<>>, startServiceGuard(socket), <<>>, {})
          /\ UNCHANGED socket
     ELSE /\ socket' = "binding"
          /\ lastOp' = Op("startService", <<>>, NoError, <<>>, {})
  /\ UNCHANGED <<store, now, pending, arrived, findAll>>

\* the 'listening' handler: the start callback gets (null, address)
onListening ==
  /\ socket = "binding"
  /\ socket' = "listening"
  /\ lastOp' = OpCallback("listening", <<>>, "start", NoError)
  /\ UNCHANGED <<store, now, pending, arrived, findAll>>

\* the errors the socket can report
SocketErrors == {"EADDRINUSE"}

\* the 'error' handler without the close
onError_staysOpen(err) ==
  /\ socket \in {"binding", "listening"}
  /\ lastOp' = OpCallback("error", <<err>>, "start", err)
  /\ UNCHANGED <<socket, store, now, pending, arrived, findAll>>

\* the 'error' handler: the start callback gets (err, null), the socket is
\* closed.  Sends queued by a socket that never finished binding are either
\* discarded with the queue or failed later, depending on the runtime.
onError(err) ==
  /\ socket \in {"binding", "listening"}
  /\ socket' = "closed"
  /\ pending' \in (IF socket = "binding" THEN {0, pending} ELSE {pending})
  /\ lastOp' = OpCallback("error", <<err>>, "start", err)
  /\ UNCHANGED <<store, now, arrived, findAll>>

\* parseString on each datagram at each receipt time, computed once
parsed ==
  [msg \in Datagrams \cup UpsertDatagrams |-> [t \in 0..MaxNow |-> parseString(RemoteAddress, DateNow(t), msg)]]

\* a handler that submits every datagram to the store
submitted_all(discoveryMessage) == TRUE

\* the test of the 'message' handler: the message is submitted to the store
submitted(discoveryMessage) ==
  isSearchResponse(discoveryMessage) \/ isNotify(discoveryMessage)

\* a 'message' handler that leaves the update to a later turn
handleMessage_deferred(msg) ==
  /\ socket = "listening"
  /\ lastOp' = OpUpdate(msg, -1)
  /\ UNCHANGED <<socket, store, now, pending>>

\* the body of the 'message' handler: parse, classify, update
handleMessage(msg) ==
  /\ socket = "listening"
  /\ LET discoveryMessage == parsed[msg][now]
     IN  /\ store' = IF submitted(discoveryMessage) THEN update(store, discoveryMessage) ELSE store
         /\ lastOp' = OpUpdate(msg, IF submitted(discoveryMessage) /\ admissible(discoveryMessage)
                                     THEN existingIndexOf(store, discoveryMessage) ELSE -1)
  /\ UNCHANGED <<socket, now, pending>>

\* the 'message' handler
onMessage(msg) ==
  /\ handleMessage(msg)
  /\ UNCHANGED <<arrived, findAll>>

\* the read of messageStore.messages: the getter filters and returns the array
getMessages ==
  /\ IF messagesThrows(store)
     THEN /\ lastOp' = Op("messages", <<>>, "TypeError", <<>>, {})
          /\ UNCHANGED store
     ELSE /\ store' = messages(store, DateNow(now))
          /\ lastOp' = Op("messages", <<>>, NoError, store', {})
  /\ UNCHANGED <<socket, now, pending>>

\* a caller reads messageStore.messages
readMessages ==
  /\ getMessages
  /\ UNCHANGED <<arrived, findAll>>

\* a caller calls messageStore.findByST
callFindByST(st) ==
  /\ IF messagesThrows(store)
     THEN /\ lastOp' = Op("findByST", st, "TypeError", <<>>, {})
          /\ UNCHANGED store
     ELSE /\ store' = messages(store, DateNow(now))
          /\ lastOp' = Op("findByST", st, NoError, findByST(store, st, DateNow(now)), {})
  /\ UNCHANGED <<socket, now, pending, arrived, findAll>>

\* a caller calls getLocations
callGetLocations ==
  /\ IF messagesThrows(store)
     THEN /\ lastOp' = Op("getLocations", <<>>, "TypeError", <<>>, {})
          /\ UNCHANGED store
     ELSE /\ store' = messages(store, DateNow(now))
          /\ lastOp' = Op("getLocations", <<>>, NoError, <<>>, getLocations(store, DateNow(now)))
  /\ UNCHANGED <<socket, now, pending, arrived, findAll>>

\* a caller calls messageStore.clear
callClear ==
  /\ store' = clear(store)
  /\ lastOp' = Op("clear", <<>>, NoError, <<>>, {})
  /\ UNCHANGED <<socket, now, pending, arrived, findAll>>

\* startSearch without its guard
startSearchGuard_none(sock) == NoError

\* the guard of startSearch: the error it throws, if any
startSearchGuard(sock) == IF sock = "null" THEN "Server not started" ELSE NoError

\* DiscoveryService.startSearch.  socket.send queues the datagram while the
\* socket is binding, and throws on a closed socket.
sendSearch(searchTarget) ==
  /\ IF startSearchGuard(socket) # NoError
     THEN /\ lastOp' = Op("startSearch", searchTarget, startSearchGuard(socket), <<>>, {})
          /\ UNCHANGED <<store, pending>>
     ELSE IF socket = "closed"
     THEN /\ store' = clear(store)
          /\ lastOp' = Op("startSearch", searchTarget, "Not running", <<>>, {})
          /\ UNCHANGED pending
     ELSE /\ pending < MaxPending
          /\ store' = clear(store)
          /\ pending' = pending + 1
          /\ lastOp' = Op("startSearch", searchTarget, NoError, <<>>, {})
  /\ UNCHANGED <<socket, now>>

\* a caller calls startSearch
startSearch(searchTarget) ==
  /\ sendSearch(searchTarget)
  /\ UNCHANGED <<arrived, findAll>>

\* the outcomes of a send
SendOutcomes == {NoError, "send failed"}

\* a send callback that reports success whatever the outcome
searchCallbackErr_none(err) == NoError

\* the err the send callback hands to the search callback: callback(err)
searchCallbackErr(err) == err

\* the callback of socket.send: the search callback gets err
onSendComplete(err) ==
  /\ pending > 0
  /\ socket # "binding"
  /\ socket = "closed" => err # NoError
  /\ pending' = pending - 1
  /\ lastOp' = OpCallback("searchCallback", <<err>>, "search", searchCallbackErr(err))
  /\ UNCHANGED <<socket, store, now, arrived, findAll>>

\* a clock with a sweep that evicts the expired entries as time passes
tick_sweeps ==
  /\ now < MaxNow
  /\ now' = now + 1
  /\ store' = messages(store, DateNow(now + 1))
  /\ lastOp' = Op("tick", <<>>, NoError, <<>>, {})
  /\ UNCHANGED <<socket, pending, arrived, findAll>>

\* time passes
tick ==
  /\ now < MaxNow
  /\ now' = now + 1
  /\ lastOp' = Op("tick", <<>>, NoError, <<>>, {})
  /\ UNCHANGED <<socket, store, pending, arrived, findAll>>

Next ==
  \/ startService
  \/ onListening
  \/ \E err \in SocketErrors : onError(err)
  \/ \E msg \in Datagrams : onMessage(msg)
  \/ readMessages
  \/ \E st \in SearchTargets : callFindByST(st)
  \/ callGetLocations
  \/ callClear
  \/ \E searchTarget \in SearchTargets : startSearch(searchTarget)
  \/ \E err \in SendOutcomes : onSendComplete(err)
  \/ tick

Spec == Init /\ [][Next]_vars

\* the event loop runs the callback of every send the socket has taken
FairSpec == Spec /\ WF_vars(\E err \in SendOutcomes : onSendComplete(err))

\* ------------------------------------------------------------------------
\* The order of the datagrams
\* ------------------------------------------------------------------------
OrderDatagrams == {AliveU1, NoCacheU1, ResponseU2, SearchRequest}

\* the 'message' handler, with the datagram and its receipt time recorded
onMessageInOrder(msg) ==
  /\ Len(arrived) < MaxArrived
  /\ handleMessage(msg)
  /\ arrived' = Append(arrived, [msg |-> msg, t |-> now])
  /\ UNCHANGED findAll

OrderNext ==
  \/ startService
  \/ onListening
  \/ \E msg \in OrderDatagrams : onMessageInOrder(msg)
  \/ tick

\* a service that only receives datagrams
OrderSpec == Init /\ [][OrderNext]_vars

\* ------------------------------------------------------------------------
\* The parser on arbitrary strings
\* ------------------------------------------------------------------------
\* datagrams with other first lines: white space before the method, another
\* HTTP version, the bare tokens, a tab after the method
StatusLineDatagrams ==
  {<<" ", "N", "O", "T", "I", "F", "Y", " ", "*", " ", "H", "T", "T", "P", "/", "1", ".", "1", "\r", "\n", "N", "T", "S", ":", " ", "s", "s", "d", "p", ":", "a", "l", "i", "v", "e", "\r", "\n", "U", "S", "N", ":", " ", "u", "1", "\r", "\n", "L", "O", "C", "A", "T", "I", "O", "N", ":", " ", "h", ":", "/", "a", "\r", "\n", "\r", "\n">>,
   <<"H", "T", "T", "P", "/", "1", ".", "0", " ", "2", "0", "0", " ", "O", "K", "\r", "\n", "S", "T", ":", " ", "c", "d", "\r", "\n", "U", "S", "N", ":", " ", "u", "2", "\r", "\n", "L", "O", "C", "A", "T", "I", "O", "N", ":", " ", "h", ":", "/", "a", "\r", "\n", "\r", "\n">>,
   <<"h", "t", "t", "p", "/", "1", ".", "1", " ", "2", "0", "0", " ", "O", "K", "\r", "\n", "S", "T", ":", " ", "c", "d", "\r", "\n", "U", "S", "N", ":", " ", "u", "2", "\r", "\n", "L", "O", "C", "A", "T", "I", "O", "N", ":", " ", "h", ":", "/", "a", "\r", "\n", "\r", "\n">>,
   <<"N", "O", "T", "I", "F", "Y">>, <<"H", "T", "T", "P", "/", "1", ".", "1">>, <<"N", "O", "T", "I", "F", "Y", "\t", "*">>, <<"N", "O", "T", "I", "F", "Y", "H", "T", "T", "P", "/", "1", ".", "1", " ", "*">>}

ParseAlphabet == {"a", ":", " ", "\r", "\n"}

\* the strings given to the parser: every string over ParseAlphabet up to
\* MaxParseLen, and the datagrams
ParseInputs ==
  UNION {[1..n -> ParseAlphabet] : n \in 0..MaxParseLen}
    \cup Datagrams \cup UpsertDatagrams \cup StatusLineDatagrams

\* the construction, with the string to parse held as the datagram to come
ParseInit ==
  \E msg \in ParseInputs :
    /\ socket = "null"
    /\ store = <<>>
    /\ now = 0
    /\ pending = 0
    /\ arrived = <<[msg |-> msg, t |-> 0]>>
    /\ findAll = NoFindAll
    /\ lastOp = [op |-> "new", arg |-> <<>>, error |-> NoError, callback |-> <<>>,
                 sizeBefore |-> 0, existingIndex |-> -1, existing |-> NoMessage,
                 msgs |-> <<>>, locs |-> {}]

\* a call of DiscoveryMessage.parseString on the string
callParseString ==
  /\ lastOp.op = "new"
  /\ LET msg == arrived[1].msg
     IN  lastOp' = IF parseStringThrows(msg)
                   THEN Op("parseString", msg, "TypeError", <<>>, {})
                   ELSE Op("parseString", msg, NoError,
                           <<parseString(RemoteAddress, DateNow(now), msg)>>, {})
  /\ UNCHANGED <<socket, store, now, pending, arrived, findAll>>

ParseNext == callParseString

\* parseString applied to every string of ParseInputs
ParseSpec == ParseInit /\ [][ParseNext]_vars


\* ------------------------------------------------------------------------
\* The store under datagrams that address entries in unusual ways
\* ------------------------------------------------------------------------
UpsertNext ==
  \/ startService
  \/ onListening
  \/ \E msg \in UpsertDatagrams : onMessage(msg)
  \/ readMessages
  \/ tick

\* a service that receives the UpsertDatagrams and is read
UpsertSpec == Init /\ [][UpsertNext]_vars

\* ------------------------------------------------------------------------
\* simplexml: the XML-to-object mapper
\* ------------------------------------------------------------------------
\* the properties of an object without properties
NoProps == [n \in {} |-> 0]

\* JavaScript values the mapper builds: a String, an Object (its properties
\* by name), an Array (its items in order)
JsString(s) == [kind |-> "string", s |-> s, props |-> NoProps, items |-> <<>>]

JsObject(props) == [kind |-> "object", s |-> <<>>, props |-> props, items |-> <<>>]

JsArray(items) == [kind |-> "array", s |-> <<>>, props |-> NoProps, items |-> items]

\* the localName of a node that is not an element (null)
NoName == "#null"

\* DOM nodes: an element with its attributes and child nodes, a text node
Element(localName, attributes, childNodes) ==
  [localName |-> localName, data |-> <<>>, attributes |-> attributes, childNodes |-> childNodes]

Text(data) == [localName |-> NoName, data |-> data, attributes |-> <<>>, childNodes |-> <<>>]

Attr(name, value) == [name |-> name, value |-> value]

\* if (obj[child.localName]): the property exists and its value is truthy;
\* the empty String is falsy, Objects and Arrays are truthy
HasTruthy(obj, name) ==
  name \in DOMAIN obj /\ ~(obj[name].kind = "string" /\ obj[name].s = <<>>)

\* obj with obj[name] = value
SetProperty(obj, name, value) == (name :> value) @@ obj

RECURSIVE parseObjectFromElement(_)
RECURSIVE parseChildNodes(_, _)
\* the loop of parseObjectFromElement over the first c child nodes: obj,
\* elementCount and txt after them
parseChildNodes(children, c) ==
  IF c = 0 THEN [obj |-> NoProps, elementCount |-> 0, txt |-> <<>>]
  ELSE LET acc   == parseChildNodes(children, c - 1)
           child == children[c]
           name  == child.localName
       IN  IF name # NoName
           THEN [acc EXCEPT
                   !.elementCount = @ + 1,
                   !.obj = IF HasTruthy(acc.obj, name)
                           THEN LET array == IF acc.obj[name].kind = "array"
                                             THEN acc.obj[name].items
                                             ELSE <<acc.obj[name]>>
                                IN  SetProperty(acc.obj, name,
                                      JsArray(Append(array, parseObjectFromElement(child))))
                           ELSE SetProperty(acc.obj, name, parseObjectFromElement(child))]
           ELSE IF child.data # <<>>
           THEN [acc EXCEPT !.txt = @ \o trim(child.data)]
           ELSE acc

RECURSIVE setAttributes(_, _, _)
\* the loop over the attributes: obj['@' + name] = value for the first a
setAttributes(obj, attributes, a) ==
  IF a = 0 THEN obj
  ELSE SetProperty(setAttributes(obj, attributes, a - 1),
                   "@" \o attributes[a].name, JsString(attributes[a].value))

\* simplexml.parseObjectFromElement
parseObjectFromElement(element) ==
  LET loop == parseChildNodes(element.childNodes, Len(element.childNodes))
      obj  == IF loop.txt # <<>> THEN SetProperty(loop.obj, "$", JsString(loop.txt))
              ELSE loop.obj
  IN  IF loop.elementCount > 0 \/ Len(element.attributes) > 0
      THEN JsObject(setAttributes(obj, element.attributes, Len(element.attributes)))
      ELSE JsString(loop.txt)

\* the child nodes a parent element is given: an empty element, elements
\* with text, an element with an attribute, white space between elements
XmlChildNodes ==
  {Element("b", <<>>, <<>>),
   Element("b", <<>>, <<Text(<<"x">>)>>),
   Element("b", <<Attr("id", <<"1">>)>>, <<>>),
   Element("c", <<>>, <<Text(<<" ", "y", " ">>)>>),
   Element("c", <<>>, <<Text(<<" ">>)>>),
   Text(<<" ">>)}

XmlElements ==
  {Element("a", <<>>, childNodes) :
     childNodes \in UNION {[1..n -> XmlChildNodes] : n \in 0..MaxChildren}}

\* the construction, with the element to map held as the document to come
XmlInit ==
  \E element \in XmlElements :
    /\ socket = "null"
    /\ store = <<>>
    /\ now = 0
    /\ pending = 0
    /\ arrived = <<[msg |-> element, t |-> 0]>>
    /\ findAll = NoFindAll
    /\ lastOp = [op |-> "new", arg |-> <<>>, error |-> NoError, callback |-> <<>>,
                 sizeBefore |-> 0, existingIndex |-> -1, existing |-> NoMessage,
                 msgs |-> <<>>, locs |-> {}]

\* a call of parseObjectFromElement on the element
callParseObjectFromElement ==
  /\ lastOp.op = "new"
  /\ lastOp' = Op("parseObjectFromElement", arrived[1].msg, NoError,
                  <<parseObjectFromElement(arrived[1].msg)>>, {})
  /\ UNCHANGED <<socket, store, now, pending, arrived, findAll>>

XmlNext == callParseObjectFromElement

\* parseObjectFromElement applied to every element with up to MaxChildren
\* child nodes of XmlChildNodes
XmlSpec == XmlInit /\ [][XmlNext]_vars

\* ------------------------------------------------------------------------
\* The reads of a caller over time
\* ------------------------------------------------------------------------
ExpiryDatagrams == {ResponseU2, BadDateU2}

\* a caller reads messageStore.messages, with the array returned and the
\* time of the read recorded
readMessagesRecorded ==
  /\ Len(arrived) < MaxArrived
  /\ getMessages
  /\ arrived' = Append(arrived, [msg |-> lastOp'.msgs, t |-> now])
  /\ UNCHANGED findAll

ExpiryNext ==
  \/ startService
  \/ onListening
  \/ \E msg \in ExpiryDatagrams : onMessage(msg)
  \/ readMessagesRecorded
  \/ tick

\* a service that receives datagrams with max-age and is read as time passes
ExpirySpec == Init /\ [][ExpiryNext]_vars

\* ------------------------------------------------------------------------
\* Refreshed entries read over time
\* ------------------------------------------------------------------------
RefreshDatagrams == {AliveU1, ResponseU2, PlainU2, BadDateU2}

RefreshNext ==
  \/ startService
  \/ onListening
  \/ \E msg \in RefreshDatagrams : onMessageInOrder(msg)
  \/ readMessages
  \/ tick

\* a service whose datagrams are recorded and whose store is read
RefreshSpec == Init /\ [][RefreshNext]_vars

\* ------------------------------------------------------------------------
\* Searches among the datagrams
\* ------------------------------------------------------------------------
SearchDatagrams == {AliveU1, ResponseU2}

\* a caller calls startSearch; after a call that returns, the record of the
\* datagrams delivered starts again
startSearchRecorded(searchTarget) ==
  /\ sendSearch(searchTarget)
  /\ arrived' = IF lastOp'.error = NoError THEN <<>> ELSE arrived
  /\ UNCHANGED findAll

SearchNext ==
  \/ startService
  \/ onListening
  \/ \E msg \in SearchDatagrams : onMessageInOrder(msg)
  \/ startSearchRecorded(<<"s", "s", "d", "p", ":", "a", "l", "l">>)
  \/ \E err \in SendOutcomes : onSendComplete(err)
  \/ readMessages
  \/ callFindByST(<<"c", "d">>)
  \/ callGetLocations
  \/ tick

\* a service that is searched and read while datagrams are recorded
SearchSpec == Init /\ [][SearchNext]_vars

\* ------------------------------------------------------------------------
\* description.js: findAllDeviceDescriptions
\* ------------------------------------------------------------------------
\* how a request ends: with err, with a status code other than 200, or with
\* status code 200 and a body
FetchOutcomes == {"err", "statusCode", "ok"}

\* findAllDeviceDescriptions(discoveryService, callback): starts one
\* getDescription for each location that getLocations returns now; when
\* getLocations throws, so does the call, before any request was made
findAllDeviceDescriptions ==
  /\ ~findAll.started
  /\ IF messagesThrows(store)
     THEN /\ lastOp' = Op("findAllDeviceDescriptions", <<>>, "TypeError", <<>>, {})
          /\ UNCHANGED <<store, findAll>>
     ELSE /\ store' = messages(store, DateNow(now))
          /\ findAll' = [started |-> TRUE,
                         outstanding |-> getLocations(store, DateNow(now)),
                         errors |-> <<>>, descriptions |-> <<>>, callbacks |-> 0]
          /\ lastOp' = Op("findAllDeviceDescriptions", <<>>, NoError, <<>>,
                          getLocations(store, DateNow(now)))
  /\ UNCHANGED <<socket, now, pending, arrived>>

\* the callback of getDescription(location, ...) runs: the outcome is pushed
\* on errors or on descriptions, then the number of outcomes is compared with
\* the size of the set getLocations returns at that moment
getDescriptionCallback(location, outcome) ==
  /\ location \in findAll.outstanding
  /\ LET errors == IF outcome = "ok" THEN findAll.errors
                   ELSE Append(findAll.errors, location)
         descriptions == IF outcome = "ok" THEN Append(findAll.descriptions, location)
                         ELSE findAll.descriptions
         pushed == [findAll EXCEPT !.outstanding = @ \ {location},
                                   !.errors = errors,
                                   !.descriptions = descriptions]
     IN IF messagesThrows(store)
        THEN /\ findAll' = pushed
             /\ lastOp' = Op("getDescription", location, "TypeError", <<>>, {})
             /\ UNCHANGED store
        ELSE /\ store' = messages(store, DateNow(now))
             /\ IF Len(descriptions) + Len(errors)
                     = Cardinality(getLocations(store, DateNow(now)))
                THEN /\ findAll' = [pushed EXCEPT !.callbacks = @ + 1]
                     /\ lastOp' = OpCallback("getDescription", location,
                                             "findAllDeviceDescriptions", NoError)
                ELSE /\ findAll' = pushed
                     /\ lastOp' = Op("getDescription", location, NoError, <<>>, {})
  /\ UNCHANGED <<socket, now, pending, arrived>>

FetchDatagrams == {AliveU1, NoCacheU1, PlainU2, NoValueU2}

FetchNext ==
  \/ startService
  \/ onListening
  \/ \E msg \in FetchDatagrams : onMessage(msg)
  \/ findAllDeviceDescriptions
  \/ \E location \in findAll.outstanding :
       \E outcome \in FetchOutcomes : getDescriptionCallback(location, outcome)
  \/ tick

\* a service whose locations are fetched while datagrams arrive
FetchSpec == Init /\ [][FetchNext]_vars
\* ------------------------------------------------------------------------
\* Vocabulary of the properties
\* ------------------------------------------------------------------------
\* the message the last 'message' event delivered, as parsed at receipt
Received == parsed[lastOp.arg][now]

\* the last operation applied update to an admissible message
Updated == lastOp.op = "message" /\ (isSearchResponse(Received) \/ isNotify(Received)) /\ admissible(Received)

\* an announcement that withdraws a service: a NOTIFY whose NTS is ssdp:byebye
Byebye(message) ==
  isNotify(message) /\ NTS0(message) # NoHeader /\ NTS0(message).value = <<"s", "s", "d", "p", ":", "b", "y", "e", "b", "y", "e">>

\* the positions of the entries of a store with the USN0 value of a message
EntriesOf(s, message) == {i \in 1..Len(s) : USN0(s[i]).value = USN0(message).value}

\* the entries of a store, as a set
Entries(s) == {s[i] : i \in 1..Len(s)}

\* C1: when an admissible message that is not a byebye is applied while an
\* entry with its USN is in the store, the store afterwards holds exactly one
\* entry for that USN, and that entry is the new message.
C1_Replacement ==
  (Updated /\ lastOp.existingIndex >= 0 /\ ~Byebye(Received))
    => /\ Cardinality(EntriesOf(store, Received)) = 1
       /\ \A i \in EntriesOf(store, Received) : store[i] = Received

\* C1 witness: a later alive message has replaced an earlier entry of its USN
C1_Witness ==
  /\ Updated /\ lastOp.existingIndex >= 0 /\ ~Byebye(Received)
  /\ lastOp.existing.timestamp < Received.timestamp
  /\ lastOp.existing.headers # Received.headers
  /\ Len(store) = 2

\* C2: in every reachable state the store holds at most one entry per USN value.
C2_OnePerUSN ==
  \A i, j \in 1..Len(store) : USN0(store[i]).value = USN0(store[j]).value => i = j

\* C2 witness: two services are known and the last datagram refreshed one of them
C2_Witness == Updated /\ lastOp.existingIndex >= 0 /\ Len(store) = 2

\* C3: when an admissible byebye NOTIFY is applied while an entry with its USN
\* is present, that entry is removed and the store has one entry fewer.
C3_ByebyeRemoves ==
  (Updated /\ lastOp.existingIndex >= 0 /\ Byebye(Received))
    => /\ EntriesOf(store, Received) = {}
       /\ Len(store) = lastOp.sizeBefore - 1

\* C4: when an admissible byebye NOTIFY is applied while no entry with its USN
\* is present, the store is unchanged.
C4_ByebyeAbsentNoOp ==
  [][(lastOp'.op = "message" /\ admissible(parsed[lastOp'.arg][now])
        /\ Byebye(parsed[lastOp'.arg][now])
        /\ EntriesOf(store, parsed[lastOp'.arg][now]) = {})
       => store' = store]_vars

\* C5: the array the messages read returns holds no entry whose isExpired is
\* true at the time of the call.
C5_NoExpiredReturned ==
  (lastOp.op = "messages" /\ lastOp.error = NoError)
    => \A i \in 1..Len(lastOp.msgs) : ~isExpired(lastOp.msgs[i], DateNow(now))

\* C5 witness: a read evicted an entry and returned entries with a max-age, one
\* of them with a DATE header
C5_Witness ==
  /\ lastOp.op = "messages" /\ lastOp.error = NoError
  /\ Len(lastOp.msgs) < lastOp.sizeBefore
  /\ \E i \in 1..Len(lastOp.msgs) :
       /\ getFirstHeaderNamed(lastOp.msgs[i], <<"C", "A", "C", "H", "E", "-", "C", "O", "N", "T", "R", "O", "L">>) # NoHeader
       /\ getFirstHeaderNamed(lastOp.msgs[i], <<"D", "A", "T", "E">>) # NoHeader

\* isExpired as the data model states it: some CACHE-CONTROL header holds
\* max-age=<seconds>, and the effective date plus max-age is before now, the
\* effective date being the DATE header when it parses and the receipt
\* timestamp otherwise
StatedIsExpired(message, dateNow) ==
  LET cacheControls == getHeadersNamed(message, <<"C", "A", "C", "H", "E", "-", "C", "O", "N", "T", "R", "O", "L">>)
      withAge == {i \in 1..Len(cacheControls) :
                    /\ cacheControls[i].value # Undefined
                    /\ indexOf(cacheControls[i].value, MaxAgeDirective) # -1
                    /\ ~parseInt(substring(cacheControls[i].value,
                          indexOf(cacheControls[i].value, MaxAgeDirective)
                            + Len(MaxAgeDirective))).nan}
      first  == CHOOSE i \in withAge : \A j \in withAge : i <= j
      maxAge == parseInt(substring(cacheControls[first].value,
                   indexOf(cacheControls[first].value, MaxAgeDirective) + Len(MaxAgeDirective)))
      date   == getFirstHeaderNamed(message, <<"D", "A", "T", "E">>)
      effectiveDate == IF date # NoHeader /\ ~DateParse(date.value).nan
                       THEN DateParse(date.value) ELSE Num(message.timestamp)
  IN  withAge # {} /\ effectiveDate.n + maxAge.n * MsPerSecond < dateNow

\* C6: isExpired is true exactly when the message has a CACHE-CONTROL header
\* with max-age=<seconds> and effectiveDate + max-age < now, effectiveDate
\* being the DATE header when present and parseable, the receipt timestamp
\* otherwise.
C6_IsExpiredAsStated ==
  \A i \in 1..Len(store) :
    ~isExpiredThrows(store[i])
      => (isExpired(store[i], DateNow(now)) <=> StatedIsExpired(store[i], DateNow(now)))

\* a message without a CACHE-CONTROL header, or whose CACHE-CONTROL header
\* has no max-age directive
NoMaxAge(message) ==
  LET cacheControl == getFirstHeaderNamed(message, <<"C", "A", "C", "H", "E", "-", "C", "O", "N", "T", "R", "O", "L">>)
  IN  cacheControl = NoHeader \/ indexOf(cacheControl.value, MaxAgeDirective) = -1

\* the step replaces or withdraws the entry of a message, or clears the store
Supersedes(message) ==
  \/ /\ lastOp'.op = "message"
     /\ admissible(parsed[lastOp'.arg][now])
     /\ USN0(parsed[lastOp'.arg][now]).value = USN0(message).value
  \/ lastOp'.op = "clear"
  \/ lastOp'.op = "startSearch" /\ lastOp'.error # "Server not started"

\* C7: a stored message without CACHE-CONTROL or without max-age never
\* expires: it stays in the store, and is in the result of every messages
\* read that returns, until it is replaced, withdrawn or the store is cleared.
C7_NoMaxAgeNeverExpires ==
  [][\A i \in 1..Len(store) :
       (NoMaxAge(store[i]) /\ ~Supersedes(store[i]))
         => /\ store[i] \in Entries(store')
            /\ (lastOp'.op = "messages" /\ lastOp'.error = NoError)
                 => store[i] \in Entries(lastOp'.msgs)]_vars

\* C7 witness: at the end of time a read evicts an entry and still returns an
\* entry without max-age that was received at the start
C7_Witness ==
  /\ lastOp.op = "messages" /\ lastOp.error = NoError
  /\ now = MaxNow
  /\ Len(lastOp.msgs) < lastOp.sizeBefore
  /\ \E i \in 1..Len(lastOp.msgs) : NoMaxAge(lastOp.msgs[i]) /\ lastOp.msgs[i].timestamp = 0

\* the headers of a message, as a set
HeadersOf(message) == {message.headers[j] : j \in 1..Len(message.headers)}

\* the values of the LOCATION headers of the entries that are not expired
LiveLocations ==
  LET live == {m \in Entries(store) : ~isExpired(m, DateNow(now))}
  IN  {h.value : h \in {g \in UNION {HeadersOf(m) : m \in live} :
                          toUpperCase(g.header) = <<"L", "O", "C", "A", "T", "I", "O", "N">>}}

\* C8: getLocations returns exactly the set of the LOCATION header values of
\* the current entries that are not expired.
C8_LocationsExact ==
  (lastOp.op = "getLocations" /\ lastOp.error = NoError) => lastOp.locs = LiveLocations

\* C8 witness: getLocations found two entries with
\* different USNs and the same LOCATION, and returned a one-element set
C8_Witness ==
  /\ lastOp.op = "getLocations" /\ lastOp.error = NoError
  /\ Len(store) = 2
  /\ USN0(store[1]).value # USN0(store[2]).value
  /\ Cardinality(lastOp.locs) = 1

\* C9: startSearch on a service that was never started raises the usage
\* error, hands no datagram to the socket, schedules no search callback and
\* leaves the store and the socket as they were.
C9_SearchBeforeStart ==
  [][(lastOp'.op = "startSearch" /\ socket = "null")
       => /\ lastOp'.error = "Server not started"
          /\ pending' = pending
          /\ store' = store
          /\ socket' = socket]_vars

\* C9 witness: startSearch was called on a service that was never started
C9_Witness == lastOp.op = "startSearch" /\ socket = "null" /\ pending = 0

\* C10: startSearch in any state other than Listening raises the not-started
\* error, hands no datagram to the socket and does not clear the store.
C10_SearchRequiresListening ==
  [][(lastOp'.op = "startSearch" /\ socket # "listening")
       => /\ lastOp'.error = "Server not started"
          /\ pending' = pending
          /\ store' = store]_vars

\* C11: a startService call on a service that is not Unstarted (binding,
\* listening or failed) is rejected with the usage error and changes nothing:
\* no socket is created or bound; a socket starts binding only from Unstarted.
C11_SingleStart ==
  [][/\ (lastOp'.op = "startService" /\ socket # "null")
          => /\ lastOp'.error = "Server already started"
             /\ socket' = socket
             /\ store' = store
             /\ pending' = pending
     /\ (socket' = "binding" /\ socket # "binding") => socket = "null"]_vars

\* C11 witness: startService was rejected on a listening service that holds entries
C11_Witness ==
  /\ lastOp.op = "startService" /\ lastOp.error = "Server already started"
  /\ socket = "listening"
  /\ Len(store) > 0

\* C12: a startSearch call on a listening service empties the store and hands
\* exactly one datagram to the socket; when the call returns the store is empty.
C12_SearchClearsAndSendsOnce ==
  [][(lastOp'.op = "startSearch" /\ socket = "listening")
       => /\ lastOp'.error = NoError
          /\ store' = <<>>
          /\ pending' = pending + 1]_vars

\* C12 witness: startSearch on a listening service emptied a store with entries
C12_Witness ==
  /\ lastOp.op = "startSearch" /\ lastOp.error = NoError
  /\ socket = "listening"
  /\ lastOp.sizeBefore > 0
  /\ store = <<>>
  /\ pending = 1

\* C14: a datagram whose first status-line token is neither NOTIFY nor
\* HTTP/1.1 is not submitted to the store: the store is left unchanged.
C14_OnlyNotifyOrResponse ==
  [][(lastOp'.op = "message"
        /\ parsed[lastOp'.arg][now].statusLine[1] \notin {<<"N", "O", "T", "I", "F", "Y">>, <<"H", "T", "T", "P", "/", "1", ".", "1">>})
       => store' = store]_vars

\* C14 witness: an M-SEARCH of another host arrived while the store held entries
C14_Witness ==
  /\ lastOp.op = "message"
  /\ Received.statusLine[1] = <<"M", "-", "S", "E", "A", "R", "C", "H">>
  /\ Len(store) > 0

\* a message without USN header, or without LOCATION header, or neither a
\* search response nor carrying an NTS header
Inadmissible(message) ==
  \/ getHeadersNamed(message, <<"U", "S", "N">>) = <<>>
  \/ getHeadersNamed(message, <<"L", "O", "C", "A", "T", "I", "O", "N">>) = <<>>
  \/ (message.statusLine[1] # <<"H", "T", "T", "P", "/", "1", ".", "1">> /\ getHeadersNamed(message, <<"N", "T", "S">>) = <<>>)

\* C15: an inadmissible message leaves the store exactly as it was, and no
\* error is raised.
C15_InadmissibleDropped ==
  [][(lastOp'.op = "message" /\ Inadmissible(parsed[lastOp'.arg][now]))
       => /\ store' = store
          /\ lastOp'.error = NoError]_vars

\* C15 witness: a NOTIFY without LOCATION arrived for a USN that has an entry
C15_Witness ==
  /\ lastOp.op = "message"
  /\ isNotify(Received) /\ Inadmissible(Received)
  /\ USN0(Received) # NoHeader /\ EntriesOf(store, Received) # {}

\* C13: every startSearch on a listening service leads to one invocation of
\* its callback: a callback answers one outstanding send, it gets the outcome
\* of the send (no error, or the error), and while a send is outstanding on a
\* bound socket a callback eventually runs.  Datagrams are applied meanwhile.
C13_SearchCallbackOnce ==
  /\ [][lastOp'.op = "searchCallback"
          => /\ pending > 0 /\ pending' = pending - 1
             /\ lastOp'.callback = <<"search", lastOp'.arg[1]>>
             /\ store' = store]_vars
  /\ ((pending > 0 /\ socket # "binding") ~> (lastOp.op = "searchCallback"))

\* C13 witness: the search callback ran without error after a response to
\* the search had already been applied to the emptied store
C13_Witness ==
  /\ lastOp.op = "searchCallback" /\ lastOp.callback = <<"search", NoError>>
  /\ pending = 0
  /\ socket = "listening"
  /\ \E i \in 1..Len(store) : isSearchResponse(store[i])

\* C16: when the socket reports an error, the handler closes the socket (the
\* service is Failed) and hands the error to the start callback; nothing is thrown.
C16_ErrorClosesAndReports ==
  lastOp.op = "error"
    => /\ socket = "closed"
       /\ lastOp.arg[1] # NoError
       /\ lastOp.callback = <<"start", lastOp.arg[1]>>
       /\ lastOp.error = NoError

\* C16 witness: the socket reported an error while listening, after datagrams
C16_Witness == lastOp.op = "error" /\ lastOp.sizeBefore > 0 /\ socket = "closed"

\* C17: Failed is terminal: a closed socket stays closed whatever is called,
\* and startService on the failed instance is rejected.
C17_FailedIsTerminal ==
  [][socket = "closed"
       => /\ socket' = "closed"
          /\ lastOp'.op = "startService" => lastOp'.error = "Server already started"]_vars

\* C17 witness: startService was rejected on a failed service
C17_Witness ==
  /\ socket = "closed"
  /\ lastOp.op = "startService" /\ lastOp.error = "Server already started"

\* the entries of the store that are not expired and have an ST header
\* (name in any letter case) with the given value
LiveWithST(st) ==
  {m \in Entries(store) :
     /\ ~isExpired(m, DateNow(now))
     /\ \E h \in HeadersOf(m) : toUpperCase(h.header) = <<"S", "T">> /\ h.value = st}

\* C20: findByST(value) returns exactly the non-expired entries that have an
\* ST header with that value, each once, in store order.
C20_FindBySTExact ==
  (lastOp.op = "findByST" /\ lastOp.error = NoError)
    => /\ Entries(lastOp.msgs) = LiveWithST(lastOp.arg)
       /\ Len(lastOp.msgs) = Cardinality(LiveWithST(lastOp.arg))

\* C20 witness: findByST evicted nothing, found the search response among two
\* entries and returned exactly it
C20_Witness ==
  /\ lastOp.op = "findByST" /\ lastOp.error = NoError
  /\ Len(store) = 2
  /\ Len(lastOp.msgs) = 1
  /\ isSearchResponse(lastOp.msgs[1])

RECURSIVE AppliedInOrder(_)
\* the store after update has been applied, one datagram at a time and in
\* the order given, to the datagrams that are submitted
AppliedInOrder(datagrams) ==
  IF datagrams = <<>> THEN <<>>
  ELSE LET before  == AppliedInOrder(SubSeq(datagrams, 1, Len(datagrams) - 1))
           last    == datagrams[Len(datagrams)]
           message == parsed[last.msg][last.t]
       IN  IF message.statusLine[1] \in {<<"N", "O", "T", "I", "F", "Y">>, <<"H", "T", "T", "P", "/", "1", ".", "1">>}
           THEN update(before, message) ELSE before

\* C18: after any number of datagrams the store equals the result of
\* applying update to them one at a time in the order the socket delivered them.
C18_AppliedInArrivalOrder == store = AppliedInOrder(arrived)

\* C18 witness: three datagrams arrived, the last two for the same USN, and
\* the store holds the last one after the entry of the other USN
C18_Witness ==
  /\ Len(arrived) = 3
  /\ arrived[1].msg = ResponseU2 /\ arrived[2].msg = AliveU1 /\ arrived[3].msg = NoCacheU1
  /\ arrived[3].t > arrived[2].t
  /\ Len(store) = 2

\* the characters of the strings given to the parser
Characters == UNION {{msg[i] : i \in 1..Len(msg)} : msg \in ParseInputs}

\* a string of the model: a sequence of characters
IsString(s) == s \in Seq(Characters)

\* C19: parseString returns a message for every input string and raises no
\* error: a status line of at least one token, and for every non-blank later
\* line a header with a name and a value that is a string or undefined.
C19_ParseTotal ==
  lastOp.op = "parseString"
    => /\ lastOp.error = NoError
       /\ Len(lastOp.msgs) = 1
       /\ Len(lastOp.msgs[1].statusLine) >= 1
       /\ \A i \in 1..Len(lastOp.msgs[1].statusLine) : IsString(lastOp.msgs[1].statusLine[i])
       /\ \A i \in 1..Len(lastOp.msgs[1].headers) :
            /\ IsString(lastOp.msgs[1].headers[i].header)
            /\ \/ lastOp.msgs[1].headers[i].value = Undefined
               \/ IsString(lastOp.msgs[1].headers[i].value)

\* C19 witness: an input without line terminator and without colon was parsed
C19_Witness ==
  /\ lastOp.op = "parseString" /\ lastOp.error = NoError
  /\ lastOp.arg # <<>>
  /\ indexOf(lastOp.arg, <<"\r", "\n">>) = -1
  /\ indexOf(lastOp.arg, <<":">>) = -1
  /\ Len(lastOp.msgs) = 1


\* the entries of the store that are not expired, are NOTIFY messages with an
\* NT header of the given value, and have no ST header
LiveNotifyWithOnlyNT(value) ==
  {m \in Entries(store) :
     /\ ~isExpired(m, DateNow(now))
     /\ isNotify(m)
     /\ \E h \in HeadersOf(m) : toUpperCase(h.header) = <<"N", "T">> /\ h.value = value
     /\ \A h \in HeadersOf(m) : toUpperCase(h.header) # <<"S", "T">>}

\* C21: findByST never substitutes NT for ST: a stored NOTIFY entry whose NT
\* value equals the queried value but which has no ST header is not returned.
C21_NoNTSubstitution ==
  (lastOp.op = "findByST" /\ lastOp.error = NoError)
    => Entries(lastOp.msgs) \cap LiveNotifyWithOnlyNT(lastOp.arg) = {}

\* C21 witness: findByST was asked for the NT value of a stored announcement
\* without ST, kept it in the store and did not return it
C21_Witness ==
  /\ lastOp.op = "findByST" /\ lastOp.error = NoError
  /\ LiveNotifyWithOnlyNT(lastOp.arg) # {}
  /\ lastOp.msgs = <<>>

\* the message the next 'message' event delivers, as parsed at receipt
Delivered == parsed[lastOp'.arg][now]

\* the next step applies update to an admissible message
Updating ==
  /\ lastOp'.op = "message"
  /\ isSearchResponse(Delivered) \/ isNotify(Delivered)
  /\ admissible(Delivered)

\* C22: when an admissible message that is a search response, or whose NTS
\* value is not ssdp:byebye, is applied while no entry with its USN is
\* present, exactly one entry keyed by that USN is added, holding that
\* message, and the other entries stay as they were.
C22_InsertWhenAbsent ==
  [][(/\ Updating
      /\ isSearchResponse(Delivered) \/ NTS0(Delivered).value # <<"s", "s", "d", "p", ":", "b", "y", "e", "b", "y", "e">>
      /\ EntriesOf(store, Delivered) = {})
       => /\ store' = Append(store, Delivered)
          /\ EntriesOf(store', Delivered) = {Len(store')}]_vars

\* C22 witness: an alive NOTIFY for a USN not in the store was added after
\* the entry of another USN
C22_Witness ==
  /\ Updated /\ lastOp.existingIndex = -1
  /\ isNotify(Received) /\ NTS0(Received).value = <<"s", "s", "d", "p", ":", "a", "l", "i", "v", "e">>
  /\ lastOp.sizeBefore = 1 /\ Len(store) = 2
  /\ store[2] = Received

\* C23: an admissible search response always upserts, whatever its NTS
\* header: it is appended when its USN is absent and takes the place of the
\* entry when its USN is present; it never deletes an entry.
C23_SearchResponseUpserts ==
  [][(Updating /\ isSearchResponse(Delivered))
       => /\ EntriesOf(store, Delivered) = {} => store' = Append(store, Delivered)
          /\ \A i \in EntriesOf(store, Delivered) :
               store' = [store EXCEPT ![i] = Delivered]
          /\ Len(store') >= Len(store)]_vars

\* C23 witness: a search response carrying NTS: ssdp:byebye has replaced the
\* entry of its USN, next to the entry of another USN
C23_Witness ==
  /\ Updated /\ isSearchResponse(Received)
  /\ NTS0(Received).value = <<"s", "s", "d", "p", ":", "b", "y", "e", "b", "y", "e">>
  /\ lastOp.existingIndex >= 0
  /\ lastOp.existing # Received
  /\ Len(store) = 2 /\ lastOp.sizeBefore = 2
  /\ store[lastOp.existingIndex + 1] = Received

\* a search response carrying NTS: ssdp:byebye was inserted for an absent USN
C23_InsertedWitness ==
  /\ Updated /\ isSearchResponse(Received)
  /\ NTS0(Received).value = <<"s", "s", "d", "p", ":", "b", "y", "e", "b", "y", "e">>
  /\ lastOp.existingIndex = -1
  /\ Len(store) = lastOp.sizeBefore + 1

\* the operations that read the store
Reads == {"messages", "findByST", "getLocations"}

\* C24: clear discards all entries: the store is empty after clear, every
\* read of an empty store returns an empty result, and an empty store stays
\* empty until an update inserts an admissible message.
C24_ClearDiscardsAll ==
  [][/\ lastOp'.op = "clear" => store' = <<>>
     /\ (store = <<>> /\ lastOp'.op \in Reads)
          => /\ lastOp'.error = NoError
             /\ lastOp'.msgs = <<>> /\ lastOp'.locs = {}
             /\ store' = <<>>
     /\ (store = <<>> /\ store' # <<>>)
          => Updating /\ store' = <<Delivered>>]_vars

\* C24 witness: clear emptied a store of two entries
C24_Witness == lastOp.op = "clear" /\ lastOp.sizeBefore = 2 /\ store = <<>>

\* the element children of an element that have the given name, in document order
ChildrenNamed(element, name) ==
  LET Named(node) == node.localName = name
  IN  SelectSeq(element.childNodes, Named)

\* C25: child element names that appear more than once under one parent
\* become a single Array property holding one item per occurrence in
\* document order, whatever the children contain.
C25_RepeatedBecomeArray ==
  lastOp.op = "parseObjectFromElement"
    => \A name \in {"b", "c"} :
         Len(ChildrenNamed(lastOp.arg, name)) > 1
           => /\ lastOp.msgs[1].kind = "object"
              /\ name \in DOMAIN lastOp.msgs[1].props
              /\ lastOp.msgs[1].props[name].kind = "array"
              /\ lastOp.msgs[1].props[name].items =
                   [i \in 1..Len(ChildrenNamed(lastOp.arg, name)) |->
                      parseObjectFromElement(ChildrenNamed(lastOp.arg, name)[i])]

\* a string without the white space at its two ends
Stripped(s) ==
  IF \A k \in 1..Len(s) : s[k] \in WhiteSpace THEN <<>>
  ELSE LET ends == CHOOSE e \in (1..Len(s)) \X (1..Len(s)) :
                     /\ e[1] <= e[2]
                     /\ s[e[1]] \notin WhiteSpace /\ s[e[2]] \notin WhiteSpace
                     /\ \A k \in 1..(e[1] - 1) : s[k] \in WhiteSpace
                     /\ \A k \in (e[2] + 1)..Len(s) : s[k] \in WhiteSpace
       IN  [k \in 1..(ends[2] - ends[1] + 1) |-> s[ends[1] + k - 1]]

\* the header a line stands for: the name left of the first colon and the
\* stripped text right of it, or the full line with an undefined value
StatedHeader(line) ==
  LET colons == {i \in 1..Len(line) : line[i] = ":"}
  IN  IF colons = {} THEN [header |-> line, value |-> Undefined]
      ELSE LET first == CHOOSE i \in colons : \A j \in colons : i <= j
           IN  [header |-> [k \in 1..(first - 1) |-> line[k]],
                value  |-> Stripped([k \in 1..(Len(line) - first) |-> line[first + k]])]

\* the lines of a string after its first line that are not empty, in order
HeaderLines(msg) ==
  LET NonBlank(line) == line # <<>>
  IN  SelectSeq(Tail(split(msg, <<"\r", "\n">>)), NonBlank)

\* C26: each non-blank line after the status line becomes one header, in
\* order: the name is the text left of the first colon, the value the text
\* right of the first colon with surrounding white space trimmed (later
\* colons stay in the value), and a line without a colon becomes a header
\* whose name is the full line and whose value is undefined.
C26_HeadersFromLines ==
  (lastOp.op = "parseString" /\ lastOp.error = NoError)
    => lastOp.msgs[1].headers =
         [i \in 1..Len(HeaderLines(lastOp.arg)) |-> StatedHeader(HeaderLines(lastOp.arg)[i])]

\* C26 witness: a string with blank lines was parsed into headers, one with a
\* URL value that holds a colon and one from a line without a colon
C26_Witness ==
  /\ lastOp.op = "parseString" /\ lastOp.error = NoError
  /\ Len(split(lastOp.arg, <<"\r", "\n">>)) > Len(lastOp.msgs[1].headers) + 1
  /\ \E i, j \in 1..Len(lastOp.msgs[1].headers) :
       /\ i < j
       /\ lastOp.msgs[1].headers[i] = [header |-> <<"L", "O", "C", "A", "T", "I", "O", "N">>, value |-> <<"h", ":", "/", "b">>]
       /\ lastOp.msgs[1].headers[j] = [header |-> <<"C", "A", "C", "H", "E", "-", "C", "O", "N", "T", "R", "O", "L">>, value |-> Undefined]

\* the identity of a message that has a USN header: the value of the first
\* of its headers whose name is USN in any letter case
Identity(message) ==
  LET named == {k \in 1..Len(message.headers) : toUpperCase(message.headers[k].header) = <<"U", "S", "N">>}
  IN  message.headers[CHOOSE k \in named : \A j \in named : k <= j].value

\* C27: store identity is the value of the first USN header, names matched
\* case-insensitively: an admissible message touches only the entry with its
\* identity (it takes its place or removes it, and adds no second one), and
\* every entry with another identity stays where and as it was.
C27_IdentityIsFirstUSN ==
  [][Updating
       => /\ \A i \in 1..Len(store) :
               Identity(store[i]) = Identity(Delivered)
                 => \/ store' = [store EXCEPT ![i] = Delivered]
                    \/ store' = SubSeq(store, 1, i - 1) \o SubSeq(store, i + 1, Len(store))
          /\ \A i \in 1..Len(store) :
               Identity(store[i]) # Identity(Delivered)
                 => \E j \in 1..Len(store') : j \in {i - 1, i} /\ store'[j] = store[i]]_vars

\* C27 witness: a NOTIFY with the headers Usn: u1 and USN: u2 has replaced
\* the entry of u1, stored under the name USN, and left the entry of u2,
\* stored under the name usn, alone
C27_Witness ==
  /\ Updated /\ lastOp.arg = TwoUsnU1
  /\ lastOp.existingIndex >= 0
  /\ lastOp.existing # Received
  /\ Identity(lastOp.existing) = <<"u", "1">>
  /\ Len(store) = 2
  /\ store[lastOp.existingIndex + 1] = Received
  /\ \E i \in 1..2 : Identity(store[i]) = <<"u", "2">> /\ isSearchResponse(store[i])

\* the first status-line token of a string: its characters before the first
\* white space character
FirstToken(msg) ==
  LET ws == {i \in 1..Len(msg) : msg[i] \in WhiteSpace}
  IN  IF ws = {} THEN msg
      ELSE [k \in 1..((CHOOSE i \in ws : \A j \in ws : i <= j) - 1) |-> msg[k]]

\* C28: classification depends only on the first status-line token, compared
\* exactly: isNotify holds iff it is NOTIFY, isSearchResponse holds iff it is
\* HTTP/1.1; no message is both, and with any other first token it is neither.
C28_ClassifiedByFirstToken ==
  (lastOp.op = "parseString" /\ lastOp.error = NoError)
    => /\ isNotify(lastOp.msgs[1]) <=> FirstToken(lastOp.arg) = <<"N", "O", "T", "I", "F", "Y">>
       /\ isSearchResponse(lastOp.msgs[1]) <=> FirstToken(lastOp.arg) = <<"H", "T", "T", "P", "/", "1", ".", "1">>
       /\ ~(isNotify(lastOp.msgs[1]) /\ isSearchResponse(lastOp.msgs[1]))

\* C28 witness: a string whose method is in lower case, otherwise a NOTIFY
\* with all its headers, was parsed and is neither
C28_Witness ==
  /\ lastOp.op = "parseString" /\ lastOp.error = NoError
  /\ lastOp.arg = OtherU1
  /\ toUpperCase(FirstToken(lastOp.arg)) = <<"N", "O", "T", "I", "F", "Y">>
  /\ ~isNotify(lastOp.msgs[1]) /\ ~isSearchResponse(lastOp.msgs[1])

\* a string that starts with white space was parsed: its first token is empty
C28_EmptyTokenWitness ==
  /\ lastOp.op = "parseString" /\ lastOp.error = NoError
  /\ Len(lastOp.arg) > 1 /\ lastOp.arg[1] = " "
  /\ lastOp.msgs[1].statusLine[1] = <<>>
  /\ lastOp.msgs[1].statusLine[2] = <<"N", "O", "T", "I", "F", "Y">>
  /\ ~isNotify(lastOp.msgs[1]) /\ ~isSearchResponse(lastOp.msgs[1])

\* the operations that clear the store: clear itself and startSearch
Clears == {"clear", "startSearch"}

\* C29: eviction happens only as a side effect of a read: in a step that is
\* no read, no clear and no update for the same USN, every entry stays in the
\* store, expired or not; the passing of time removes nothing.
C29_EvictionOnlyOnRead ==
  [][\A i \in 1..Len(store) :
       (/\ lastOp'.op \notin Reads \cup Clears
        /\ ~(Updating /\ Identity(Delivered) = Identity(store[i])))
         => \E j \in 1..Len(store') : store'[j] = store[i]]_vars

\* C29 witness: an entry that was already expired a second ago is still in
\* the store after time has passed and a message for another USN was applied
C29_Witness ==
  /\ Updated /\ lastOp.existingIndex = -1
  /\ now > 0
  /\ \E i \in 1..Len(store) :
       /\ Identity(store[i]) # Identity(Received)
       /\ isExpired(store[i], DateNow(now - 1))
       /\ isExpired(store[i], DateNow(now))

\* an earlier read of messages has returned the message while it was unexpired
ReturnedUnexpired(m) ==
  \E k \in 1..Len(arrived) :
    m \in Entries(arrived[k].msg) /\ ~StatedIsExpired(m, DateNow(arrived[k].t))

\* C30: isExpired is recomputed from the message data and the current time
\* on every call: an entry returned by one read of messages while unexpired
\* is absent from every read made after now exceeds effectiveDate + max-age;
\* once evicted it does not reappear unless an admissible message is applied.
C30_ExpiryRecomputed ==
  [][/\ (lastOp'.op = "messages" /\ lastOp'.error = NoError)
          => \A m \in Entries(lastOp'.msgs) :
               ReturnedUnexpired(m) => ~StatedIsExpired(m, DateNow(now))
     /\ \A i \in 1..Len(store') :
          store'[i] \notin Entries(store) => (Updating /\ store'[i] = Delivered)]_vars

\* a read has returned an entry with max-age and a DATE that parses, and a
\* later read, made after it expired, has evicted it
C30_EvictedWitness ==
  /\ lastOp.op = "messages" /\ lastOp.error = NoError
  /\ Len(arrived) = 2
  /\ \E m \in Entries(arrived[1].msg) :
       /\ isSearchResponse(m)
       /\ ~StatedIsExpired(m, DateNow(arrived[1].t))
       /\ StatedIsExpired(m, DateNow(now))
       /\ m \notin Entries(lastOp.msgs)

\* the message of the k-th datagram delivered, as parsed at receipt
Arrived(k) == parsed[arrived[k].msg][arrived[k].t]

\* the k-th datagram delivered was applied by update as an admissible message
IsWrite(k) ==
  /\ isSearchResponse(Arrived(k)) \/ isNotify(Arrived(k))
  /\ admissible(Arrived(k))

\* the k-th datagram delivered is the last write for its USN
IsLastWrite(k) ==
  /\ IsWrite(k)
  /\ \A j \in (k + 1)..Len(arrived) : IsWrite(j) => Identity(Arrived(j)) # Identity(Arrived(k))

\* C31: after a refresh, expiry of the entry is governed only by the
\* replacing message: a read returns the last message written for a USN
\* whenever that message is unexpired, whatever the expiry instants of the
\* messages it replaced; a last message that was already expired when it
\* was written is gone after the read; no replaced message is returned.
C31_LastWriteGovernsExpiry ==
  (lastOp.op = "messages" /\ lastOp.error = NoError)
    => \A k \in 1..Len(arrived) :
         /\ (IsLastWrite(k) /\ ~StatedIsExpired(Arrived(k), DateNow(now)))
              => Arrived(k) \in Entries(lastOp.msgs)
         /\ (IsLastWrite(k) /\ StatedIsExpired(Arrived(k), DateNow(arrived[k].t)))
              => Arrived(k) \notin Entries(store)
         /\ (IsWrite(k) /\ ~IsLastWrite(k) /\ Arrived(k) \in Entries(lastOp.msgs))
              => \E j \in (k + 1)..Len(arrived) : IsLastWrite(j) /\ Arrived(j) = Arrived(k)

\* C31 witness: an entry with max-age was refreshed before its expiry
\* instant, and a read made after that instant, while the new message is
\* unexpired, returns the new message
C31_Witness ==
  /\ lastOp.op = "messages" /\ lastOp.error = NoError
  /\ Len(arrived) = 2
  /\ arrived[1].msg = AliveU1 /\ arrived[2].msg = AliveU1
  /\ arrived[1].t < arrived[2].t
  /\ ~StatedIsExpired(Arrived(1), DateNow(arrived[2].t))
  /\ StatedIsExpired(Arrived(1), DateNow(now))
  /\ ~StatedIsExpired(Arrived(2), DateNow(now))
  /\ lastOp.msgs = <<Arrived(2)>>

\* an entry without max-age was replaced by a search response that was
\* already expired, and the next read evicted it
C31_EvictedWitness ==
  /\ lastOp.op = "messages" /\ lastOp.error = NoError
  /\ Len(arrived) = 2
  /\ arrived[1].msg = PlainU2 /\ arrived[2].msg = ResponseU2
  /\ StatedIsExpired(Arrived(2), DateNow(arrived[2].t))
  /\ lastOp.sizeBefore = 1
  /\ store = <<>>

\* the start callback has been invoked: with the bound address when the
\* socket is listening, with an error when it is closed
StartCallbackInvoked == socket \in {"listening", "closed"}

\* C32: the start callback is invoked at most once over the lifetime of a
\* service instance: once it has been invoked, with the bound address or
\* with an error, no later step invokes it again.
C32_StartCallbackAtMostOnce ==
  [][StartCallbackInvoked
       => ~(Len(lastOp'.callback) = 2 /\ lastOp'.callback[1] = "start")]_vars


\* the messages of the datagrams delivered since the most recent startSearch
\* that returned (of all datagrams delivered, when there was none)
ArrivedSinceSearch == {Arrived(k) : k \in 1..Len(arrived)}

\* C33: a search supersedes prior knowledge: after a startSearch call that
\* returned, every entry of the store comes from a datagram received after
\* that call, and no read returns an entry, or the location of an entry,
\* received before the most recent startSearch.
C33_SearchSupersedes ==
  /\ Entries(store) \subseteq ArrivedSinceSearch
  /\ (lastOp.op \in Reads /\ lastOp.error = NoError)
       => /\ Entries(lastOp.msgs) \subseteq ArrivedSinceSearch
          /\ lastOp.locs \subseteq
               UNION {{h.value : h \in {g \in HeadersOf(m) : toUpperCase(g.header) = <<"L", "O", "C", "A", "T", "I", "O", "N">>}} :
                        m \in ArrivedSinceSearch}

\* C33 witness: time has passed since a datagram was received and a search is
\* still outstanding; a read returns only the one entry received after the search
C33_Witness ==
  /\ lastOp.op = "messages" /\ lastOp.error = NoError
  /\ pending = 1
  /\ Len(arrived) = 1
  /\ lastOp.msgs = <<Arrived(1)>>
  /\ Arrived(1).timestamp > 0

\* C34: reads are total: for every store content reachable through
\* parseString and update, messages, findByST and getLocations return a
\* result and raise no error.
C34_ReadsTotal == lastOp.op \in Reads => lastOp.error = NoError

\* the entries of a store whose USN is not the USN of the message, in order
OtherEntries(s, message) ==
  LET Other(m) == Identity(m) # Identity(message)
  IN  SelectSeq(s, Other)

\* update changes at most the entry of the message's own USN: the entries of
\* the other USNs are the same, in the same order, and an entry of its USN is
\* replaced in its position or removed
UpdateFrame ==
  Updating
    => /\ OtherEntries(store', Delivered) = OtherEntries(store, Delivered)
       /\ \A i \in EntriesOf(store, Delivered) :
            \/ store' = [store EXCEPT ![i] = Delivered]
            \/ store' = SubSeq(store, 1, i - 1) \o SubSeq(store, i + 1, Len(store))

\* the place in the record of delivered datagrams of the first message
\* written for the USN of a message
FirstWrite(message) ==
  CHOOSE k \in 1..Len(arrived) :
    /\ IsWrite(k) /\ Identity(Arrived(k)) = Identity(message)
    /\ \A j \in 1..(k - 1) : ~(IsWrite(j) /\ Identity(Arrived(j)) = Identity(message))

\* C35 as stated: update changes at most the entry of the message's own USN,
\* a replacement keeps the position, and reads list the entries in the order
\* of the first insertion of their USN.
C35_FirstInsertionOrder ==
  [][/\ UpdateFrame
     /\ (lastOp'.op = "messages" /\ lastOp'.error = NoError)
          => \A i, j \in 1..Len(lastOp'.msgs) :
               i < j => FirstWrite(lastOp'.msgs[i]) < FirstWrite(lastOp'.msgs[j])]_vars

\* a sequence is another one with some of its elements left out
IsFiltered(result, s) ==
  LET Kept(m) == m \in Entries(result)
  IN  result = SelectSeq(s, Kept)

\* C35: update changes at most the entry of the message's own USN, a
\* replacement keeps the position, a message for a USN that is not in the
\* store goes to the end, and reads list the entries they return in the
\* order of the store: the order in which their USNs were inserted since
\* they were last absent from the store.
C35_InsertionOrderSinceAbsent ==
  [][/\ UpdateFrame
     /\ (Updating /\ EntriesOf(store, Delivered) = {})
          => store' \in {store, Append(store, Delivered)}
     /\ (lastOp'.op \in {"messages", "findByST"} /\ lastOp'.error = NoError)
          => IsFiltered(lastOp'.msgs, store) /\ IsFiltered(store', store)]_vars

\* C35 witness: the first of two entries was refreshed and has kept its place
C35_Witness ==
  /\ Updated /\ lastOp.existingIndex = 0
  /\ lastOp.existing # Received
  /\ Len(store) = 2
  /\ store[1] = Received
  /\ Identity(store[2]) # Identity(Received)

\* a USN that was evicted by a read and announced again stands after a USN
\* that was first inserted later
C35_ReinsertedWitness ==
  /\ Len(arrived) = 3 /\ Len(store) = 2
  /\ IsWrite(1) /\ IsWrite(2) /\ IsWrite(3)
  /\ Identity(Arrived(1)) = Identity(Arrived(3))
  /\ store = <<Arrived(2), Arrived(3)>>

\* ------------------------------------------------------------------------
\* C36  findAllDeviceDescriptions invokes its callback exactly once, after
\* the fetch of every location has completed, whatever datagrams arrive and
\* expire in between, and also when there is no location: once it was called,
\* the callback was invoked once if no fetch is outstanding, and not at all
\* if one is.
\* ------------------------------------------------------------------------
C36_CallbackExactlyOnce ==
  findAll.started =>
    findAll.callbacks = (IF findAll.outstanding = {} THEN 1 ELSE 0)

\* the call found no location: no fetch, and no callback
C36_EmptyNoCallback ==
  /\ findAll.started
  /\ findAll.outstanding = {}
  /\ Len(findAll.errors) + Len(findAll.descriptions) = 0
  /\ findAll.callbacks = 0

\* every fetch has completed and the callback was never invoked
C36_CompletedNoCallback ==
  /\ findAll.started
  /\ findAll.outstanding = {}
  /\ Len(findAll.errors) + Len(findAll.descriptions) > 0
  /\ findAll.callbacks = 0

\* the callback was invoked while a fetch was outstanding
C36_CallbackEarly == findAll.callbacks > 0 /\ findAll.outstanding # {}

\* the callback was invoked twice
C36_CallbackTwice == findAll.callbacks = 2
====
